---- MODULE Spec2Model ----
(***************************************************************************)
(* Model of the leptos-image optimizer (src/src/optimizer.rs):             *)
(*   - the CachedImage descriptor and its two encodings (query string and  *)
(*     base64 path token), with the path resolver built on PathBuf;        *)
(*   - ImageOptimizer::create_image, its semaphore, the blocking tasks     *)
(*     running create_optimized_image, and the cache files they write.     *)
(* Rust strings are modelled as sequences of bytes (UTF-8).                *)
(***************************************************************************)
EXTENDS Integers, Sequences, FiniteSets, TLC

(***************************************************************************)
(* Bytes and string literals                                               *)
(***************************************************************************)
Lower == <<"a","b","c","d","e","f","g","h","i","j","k","l","m",
           "n","o","p","q","r","s","t","u","v","w","x","y","z">>
Upper == <<"A","B","C","D","E","F","G","H","I","J","K","L","M",
           "N","O","P","Q","R","S","T","U","V","W","X","Y","Z">>
Digit == <<"0","1","2","3","4","5","6","7","8","9">>

IndexOf(seq, c) == CHOOSE i \in DOMAIN seq : seq[i] = c

\* The ASCII code of a one-character literal.
Code(c) ==
    IF \E i \in DOMAIN Lower : Lower[i] = c THEN 96 + IndexOf(Lower, c)
    ELSE IF \E i \in DOMAIN Upper : Upper[i] = c THEN 64 + IndexOf(Upper, c)
    ELSE IF \E i \in DOMAIN Digit : Digit[i] = c THEN 47 + IndexOf(Digit, c)
    ELSE CASE c = " " -> 32 [] c = "%" -> 37 [] c = "&" -> 38 [] c = "*" -> 42
           [] c = "+" -> 43 [] c = "-" -> 45 [] c = "." -> 46 [] c = "/" -> 47
           [] c = "=" -> 61 [] c = "?" -> 63 [] c = "[" -> 91 [] c = "]" -> 93
           [] c = "_" -> 95

\* A string literal, written as a tuple of characters, as its bytes.
B(lit) == [i \in DOMAIN lit |-> Code(lit[i])]

IsAlnum(b) == (b >= 48 /\ b <= 57) \/ (b >= 65 /\ b <= 90) \/ (b >= 97 /\ b <= 122)
IsDigit(b) == b >= 48 /\ b <= 57

\* The concatenation of ss[lo..hi], by halves (the recursion stays shallow).
RECURSIVE ConcatRange(_, _, _)
ConcatRange(ss, lo, hi) ==
    IF lo > hi THEN <<>>
    ELSE IF lo = hi THEN ss[lo]
    ELSE LET mid == (lo + hi) \div 2 IN
         ConcatRange(ss, lo, mid) \o ConcatRange(ss, mid + 1, hi)
Concat(ss) == ConcatRange(ss, 1, Len(ss))

Max(S) == CHOOSE x \in S : \A y \in S : y <= x

\* s.split(sep): the pieces of s between occurrences of the byte sep
\* (always at least one piece, possibly empty).
Split(s, sep) ==
    LET at == {i \in DOMAIN s : s[i] = sep}
        cut(k) == IF k = 0 THEN 0
                  ELSE IF k > Cardinality(at) THEN Len(s) + 1
                  ELSE CHOOSE i \in at : Cardinality({j \in at : j < i}) = k - 1
    IN [k \in 1..(Cardinality(at) + 1) |-> SubSeq(s, cut(k - 1) + 1, cut(k) - 1)]

StartsWith(s, p) == Len(s) >= Len(p) /\ SubSeq(s, 1, Len(p)) = p
EndsWith(s, p) == Len(s) >= Len(p) /\ SubSeq(s, Len(s) - Len(p) + 1, Len(s)) = p

\* u32 / u8 Display: decimal digits, no sign, no leading zeros.
RECURSIVE ToDecimal(_)
ToDecimal(n) ==
    IF n < 10 THEN <<48 + n>> ELSE Append(ToDecimal(n \div 10), 48 + (n % 10))

\* A digit string without its leading zeros.
RECURSIVE StripZeros(_)
StripZeros(s) ==
    IF Len(s) > 1 /\ Head(s) = 48 THEN StripZeros(Tail(s)) ELSE s

\* Numeric order of two digit strings that have no leading zeros.
RECURSIVE DigitsLeq(_, _)
DigitsLeq(s, t) ==
    IF Len(s) # Len(t) THEN Len(s) < Len(t)
    ELSE IF s = <<>> THEN TRUE
    ELSE IF Head(s) # Head(t) THEN Head(s) < Head(t)
    ELSE DigitsLeq(Tail(s), Tail(t))

RECURSIVE DigitsValue(_, _)
DigitsValue(s, acc) ==
    IF s = <<>> THEN acc ELSE DigitsValue(Tail(s), acc * 10 + (Head(s) - 48))

U32Max == B(<<"4","2","9","4","9","6","7","2","9","5">>)
U8Max == B(<<"2","5","5">>)

\* str::parse::<uN>(): an optional '+', then one or more digits, the value
\* at most uN::MAX (given as its digits).
ParseUInt(s, max) ==
    LET t == IF s # <<>> /\ Head(s) = 43 THEN Tail(s) ELSE s IN
    IF t = <<>> \/ \E i \in DOMAIN t : ~IsDigit(t[i])
    THEN [ok |-> FALSE]
    ELSE IF ~DigitsLeq(StripZeros(t), max) THEN [ok |-> FALSE]
    ELSE [ok |-> TRUE, val |-> DigitsValue(StripZeros(t), 0)]

(***************************************************************************)
(* serde_qs: the query-string form of a CachedImage                        *)
(***************************************************************************)
HexDigit(n) == IF n < 10 THEN 48 + n ELSE 55 + n

\* serde_qs QS_ENCODE_SET: every byte but alphanumerics and ' ', '*', '-',
\* '.', '_' is written %XX; replace_space then writes ' ' as '+'.
\* Mutant: an encode set that leaves '?' as it is.
QsKeepsQuestionMark(b) == IsAlnum(b) \/ b \in {32, 42, 45, 46, 95, 63}

QsKeeps(b) == IsAlnum(b) \/ b \in {32, 42, 45, 46, 95}
QsEncodeByte(b) ==
    IF b = 32 THEN <<43>>
    ELSE IF QsKeeps(b) THEN <<b>>
    ELSE <<37, HexDigit(b \div 16), HexDigit(b % 16)>>

QsEncode(s) == Concat([i \in DOMAIN s |-> QsEncodeByte(s[i])])

HexValue(b) ==
    IF IsDigit(b) THEN b - 48
    ELSE IF b >= 65 /\ b <= 70 THEN b - 55
    ELSE IF b >= 97 /\ b <= 102 THEN b - 87
    ELSE -1

\* The text after one '%': the byte XX when it starts with two hex digits,
\* else the '%' stays as it is.
QsDecodeEscape(p) ==
    IF Len(p) >= 2 /\ HexValue(p[1]) >= 0 /\ HexValue(p[2]) >= 0
    THEN <<HexValue(p[1]) * 16 + HexValue(p[2])>> \o SubSeq(p, 3, Len(p))
    ELSE <<37>> \o p

\* serde_qs decoding of a key or value: '+' is a space, %XX is the byte XX.
QsDecode(s) ==
    LET plain == [i \in DOMAIN s |-> IF s[i] = 43 THEN 32 ELSE s[i]]
        pieces == Split(plain, 37)
    IN Concat([k \in DOMAIN pieces |->
                  IF k = 1 THEN pieces[k] ELSE QsDecodeEscape(pieces[k])])

\* String::from_utf8 / str validity of a byte sequence: every byte that is
\* no continuation byte starts a well-formed character of 1 to 4 bytes, and
\* every continuation byte belongs to one.
IsCont(b) == b >= 128 /\ b <= 191
Utf8Width(b) ==
    IF b < 128 THEN 1
    ELSE IF b >= 194 /\ b <= 223 THEN 2
    ELSE IF b >= 224 /\ b <= 239 THEN 3
    ELSE IF b >= 240 /\ b <= 244 THEN 4
    ELSE 0
ValidUtf8(s) ==
    /\ s # <<>> => ~IsCont(s[1])
    /\ \A i \in DOMAIN s :
         ~IsCont(s[i]) =>
            LET w == Utf8Width(s[i]) IN
            /\ w > 0
            /\ i + w - 1 <= Len(s)
            /\ \A j \in (i + 1)..(i + w - 1) : IsCont(s[j])
            /\ i + w <= Len(s) => ~IsCont(s[i + w])
            /\ (s[i] = 224 => s[i + 1] >= 160)
            /\ (s[i] = 237 => s[i + 1] <= 159)
            /\ (s[i] = 240 => s[i + 1] >= 144)
            /\ (s[i] = 244 => s[i + 1] <= 143)

IsResize(option) == option.tag = "r"

KeySrc == B(<<"s","r","c">>)
KeyOption(variant, field) ==
    B(<<"o","p","t","i","o","n","[">>) \o B(variant) \o B(<<"]","[">>) \o B(field) \o B(<<"]">>)

QsPair(key, value) == key \o <<61>> \o value

RECURSIVE JoinWith(_, _)
JoinWith(ss, sep) ==
    IF ss = <<>> THEN <<>>
    ELSE IF Len(ss) = 1 THEN Head(ss)
    ELSE Head(ss) \o <<sep>> \o JoinWith(Tail(ss), sep)

\* Mutant: the quality of a Resize is left out of the encoding.
qs_to_string_no_quality(d) ==
    JoinWith(
      <<QsPair(KeySrc, QsEncode(d.src))>> \o
      (IF IsResize(d.option)
       THEN << QsPair(KeyOption(<<"r">>, <<"w">>), ToDecimal(d.option.w)),
               QsPair(KeyOption(<<"r">>, <<"h">>), ToDecimal(d.option.h)) >>
       ELSE << QsPair(KeyOption(<<"b">>, <<"w">>), ToDecimal(d.option.w)),
               QsPair(KeyOption(<<"b">>, <<"h">>), ToDecimal(d.option.h)),
               QsPair(KeyOption(<<"b">>, <<"s","w">>), ToDecimal(d.option.sw)),
               QsPair(KeyOption(<<"b">>, <<"s","h">>), ToDecimal(d.option.sh)),
               QsPair(KeyOption(<<"b">>, <<"s">>), ToDecimal(d.option.s)) >>),
      38)

\* serde_qs::to_string(&CachedImage): the fields in declaration order under
\* their serde names, the enum variant as a nested key.
qs_to_string(d) ==
    JoinWith(
      <<QsPair(KeySrc, QsEncode(d.src))>> \o
      (IF IsResize(d.option)
       THEN << QsPair(KeyOption(<<"r">>, <<"w">>), ToDecimal(d.option.w)),
               QsPair(KeyOption(<<"r">>, <<"h">>), ToDecimal(d.option.h)),
               QsPair(KeyOption(<<"r">>, <<"q">>), ToDecimal(d.option.q)) >>
       ELSE << QsPair(KeyOption(<<"b">>, <<"w">>), ToDecimal(d.option.w)),
               QsPair(KeyOption(<<"b">>, <<"h">>), ToDecimal(d.option.h)),
               QsPair(KeyOption(<<"b">>, <<"s","w">>), ToDecimal(d.option.sw)),
               QsPair(KeyOption(<<"b">>, <<"s","h">>), ToDecimal(d.option.sh)),
               QsPair(KeyOption(<<"b">>, <<"s">>), ToDecimal(d.option.s)) >>),
      38)

\* One "key=value" piece of a query string, both sides decoded.
QsParsePair(piece) ==
    LET kv == Split(piece, 61)
        rest == IF Len(kv) = 1 THEN <<>> ELSE JoinWith(Tail(kv), 61)
    IN [key |-> QsDecode(Head(kv)), value |-> QsDecode(rest)]

QsPairs(text) ==
    LET pieces == SelectSeq(Split(text, 38), LAMBDA p : p # <<>>)
    IN [i \in DOMAIN pieces |-> QsParsePair(pieces[i])]

QsHas(pairs, key) == \E i \in DOMAIN pairs : pairs[i].key = key
QsGet(pairs, key) == pairs[CHOOSE i \in DOMAIN pairs : pairs[i].key = key].value
QsHasVariant(pairs, variant) ==
    \E i \in DOMAIN pairs :
        StartsWith(pairs[i].key, B(<<"o","p","t","i","o","n","[">>) \o B(variant) \o B(<<"]">>))

\* Mutant: a field that is absent takes the value 0.
QsFieldDefaulted(pairs, variant, field, max) ==
    IF QsHas(pairs, KeyOption(variant, field))
    THEN ParseUInt(QsGet(pairs, KeyOption(variant, field)), max)
    ELSE [ok |-> TRUE, val |-> 0]

QsField(pairs, variant, field, max) ==
    IF QsHas(pairs, KeyOption(variant, field))
    THEN ParseUInt(QsGet(pairs, KeyOption(variant, field)), max)
    ELSE [ok |-> FALSE]

\* serde_qs::from_str::<CachedImage>: both fields are required, the option
\* is exactly one variant with every field of it present and in range.
qs_from_str(text) ==
    LET pairs == QsPairs(text)
        isR == QsHasVariant(pairs, <<"r">>)
        isB == QsHasVariant(pairs, <<"b">>)
    IN
    IF ~ValidUtf8(text) \/ ~QsHas(pairs, KeySrc) \/ isR = isB THEN [ok |-> FALSE]
    ELSE IF ~ValidUtf8(QsGet(pairs, KeySrc)) THEN [ok |-> FALSE]
    ELSE IF isR THEN
        LET w == QsField(pairs, <<"r">>, <<"w">>, U32Max)
            h == QsField(pairs, <<"r">>, <<"h">>, U32Max)
            q == QsField(pairs, <<"r">>, <<"q">>, U8Max)
        IN IF w.ok /\ h.ok /\ q.ok
           THEN [ok |-> TRUE,
                 val |-> [src |-> QsGet(pairs, KeySrc),
                          option |-> [tag |-> "r", w |-> w.val, h |-> h.val, q |-> q.val]]]
           ELSE [ok |-> FALSE]
    ELSE
        LET w == QsField(pairs, <<"b">>, <<"w">>, U32Max)
            h == QsField(pairs, <<"b">>, <<"h">>, U32Max)
            sw == QsField(pairs, <<"b">>, <<"s","w">>, U32Max)
            sh == QsField(pairs, <<"b">>, <<"s","h">>, U32Max)
            sg == QsField(pairs, <<"b">>, <<"s">>, U8Max)
        IN IF w.ok /\ h.ok /\ sw.ok /\ sh.ok /\ sg.ok
           THEN [ok |-> TRUE,
                 val |-> [src |-> QsGet(pairs, KeySrc),
                          option |-> [tag |-> "b", w |-> w.val, h |-> h.val,
                                      sw |-> sw.val, sh |-> sh.val, s |-> sg.val]]]
           ELSE [ok |-> FALSE]

(***************************************************************************)
(* base64 (general_purpose::STANDARD: the standard alphabet, '=' padding   *)
(* written and required, no spare bits accepted)                           *)
(***************************************************************************)
B64Char(i) ==
    IF i < 26 THEN 65 + i
    ELSE IF i < 52 THEN 71 + i
    ELSE IF i < 62 THEN i - 4
    ELSE IF i = 62 THEN 43 ELSE 47

B64Value(b) ==
    IF b >= 65 /\ b <= 90 THEN b - 65
    ELSE IF b >= 97 /\ b <= 122 THEN b - 71
    ELSE IF IsDigit(b) THEN b + 4
    ELSE IF b = 43 THEN 62
    ELSE IF b = 47 THEN 63
    ELSE -1

\* The four characters for the k-th group of (up to) three bytes.
B64EncodeGroup(s, k) ==
    LET i == 3 * k - 2
        b1 == s[i]
        b2 == IF i + 1 <= Len(s) THEN s[i + 1] ELSE 0
        b3 == IF i + 2 <= Len(s) THEN s[i + 2] ELSE 0
    IN << B64Char(b1 \div 4),
          B64Char((b1 % 4) * 16 + b2 \div 16),
          IF i + 1 <= Len(s) THEN B64Char((b2 % 16) * 4 + b3 \div 64) ELSE 61,
          IF i + 2 <= Len(s) THEN B64Char(b3 % 64) ELSE 61 >>

base64_encode(s) ==
    Concat([k \in 1..((Len(s) + 2) \div 3) |-> B64EncodeGroup(s, k)])

\* The bytes of one group of four characters; <<-1>> when the group is invalid.
B64Group(g, last) ==
    LET a == B64Value(g[1])
        b == B64Value(g[2])
        c == B64Value(g[3])
        d == B64Value(g[4])
    IN
    IF a < 0 \/ b < 0 THEN <<-1>>
    ELSE IF g[3] = 61 THEN
        IF last /\ g[4] = 61 /\ b % 16 = 0 THEN <<a * 4 + b \div 16>> ELSE <<-1>>
    ELSE IF c < 0 THEN <<-1>>
    ELSE IF g[4] = 61 THEN
        IF last /\ c % 4 = 0
        THEN <<a * 4 + b \div 16, (b % 16) * 16 + c \div 4>> ELSE <<-1>>
    ELSE IF d < 0 THEN <<-1>>
    ELSE <<a * 4 + b \div 16, (b % 16) * 16 + c \div 4, (c % 4) * 64 + d>>

B64Groups(s) ==
    Concat([k \in 1..(Len(s) \div 4) |->
               B64Group(SubSeq(s, 4 * k - 3, 4 * k), 4 * k = Len(s))])

base64_decode(s) ==
    IF Len(s) % 4 # 0 THEN [ok |-> FALSE]
    ELSE LET bytes == B64Groups(s) IN
         IF \E i \in DOMAIN bytes : bytes[i] < 0 THEN [ok |-> FALSE]
         ELSE [ok |-> TRUE, val |-> bytes]

(***************************************************************************)
(* std::path on Unix: PathBuf as the raw string it holds                   *)
(***************************************************************************)
RECURSIVE TrimStart(_)
TrimStart(s) == IF s # <<>> /\ Head(s) = 47 THEN TrimStart(Tail(s)) ELSE s
RECURSIVE TrimEnd(_)
TrimEnd(s) ==
    IF s # <<>> /\ s[Len(s)] = 47 THEN TrimEnd(SubSeq(s, 1, Len(s) - 1)) ELSE s

\* PathBuf::push of a relative segment: a separator is added unless the
\* buffer is empty or already ends in one; an absolute segment replaces it.
PathPush(buf, seg) ==
    IF seg # <<>> /\ Head(seg) = 47 THEN seg
    ELSE IF buf = <<>> \/ buf[Len(buf)] = 47 THEN buf \o seg
    ELSE buf \o <<47>> \o seg

RECURSIVE PathCollect(_, _)
PathCollect(buf, segs) ==
    IF segs = <<>> THEN buf ELSE PathCollect(PathPush(buf, Head(segs)), Tail(segs))

\* path_from_segments: each segment trimmed of leading and trailing '/',
\* the empty ones dropped, the rest collected into a PathBuf.
path_from_segments(segments) ==
    LET trimmed == [i \in DOMAIN segments |-> TrimEnd(TrimStart(segments[i]))]
    IN PathCollect(<<>>, SelectSeq(trimmed, LAMBDA t : t # <<>>))

Dot == <<46>>
DotDot == <<46, 46>>

\* Path::components, read from the back: the index in the raw string at
\* which the last component ends, 0 when there is none.  Empty pieces and
\* "." pieces are no components, except a "." that starts the path.
RECURSIVE LastComponentEnd(_, _)
LastComponentEnd(raw, end) ==
    IF end = 0 THEN 0
    ELSE IF raw[end] = 47 THEN LastComponentEnd(raw, end - 1)
    ELSE IF raw[end] = 46 /\ end > 1 /\ raw[end - 1] = 47
         THEN LastComponentEnd(raw, end - 1)
    ELSE end

ComponentStart(raw, end) ==
    Max({0} \cup {i \in 1..end : raw[i] = 47}) + 1

LastDot(name) == Max({0} \cup {i \in DOMAIN name : name[i] = 46})

\* Path::file_stem's length for a file name: the part before the last '.',
\* the whole name when it has no '.' or only a leading one.
FileStemLen(name) ==
    LET i == LastDot(name) IN IF i <= 1 THEN Len(name) ELSE i - 1

\* PathBuf::set_extension: nothing is done (false is returned) when the
\* path has no file name, that is when its last component is not a normal
\* one; else the buffer is cut right after the file stem and ".ext" added.
set_extension(raw, ext) ==
    LET end == LastComponentEnd(raw, Len(raw))
        start == ComponentStart(raw, end)
        name == SubSeq(raw, start, end)
    IN
    IF end = 0 \/ name = DotDot \/ name = Dot THEN raw
    ELSE SubSeq(raw, 1, start - 1 + FileStemLen(name)) \o Dot \o ext

(***************************************************************************)
(* CachedImage and the path resolver                                       *)
(***************************************************************************)
CacheImageDir == B(<<"c","a","c","h","e","/","i","m","a","g","e">>)
ExtWebp == B(<<"w","e","b","p">>)
ExtSvg == B(<<"s","v","g">>)
UrlPrefix == B(<<"/","c","a","c","h","e","/","i","m","a","g","e","?">>)

\* CachedImage::get_url_encoded
get_url_encoded(d) == UrlPrefix \o qs_to_string(d)

\* CachedImage::from_url_encoded: the text after the last '?'.
from_url_encoded(url) ==
    LET pieces == Split(url, 63) IN qs_from_str(pieces[Len(pieces)])

\* The opaque token: base64 of the query-string form.
PathToken(d) == base64_encode(qs_to_string(d))

\* CachedImage::get_file_path and ImageOptimizer::get_file_path (the same
\* body): cache/image/<token>/<src>, then the extension by variant.
get_file_path(d) ==
    LET path == path_from_segments(<<CacheImageDir, PathToken(d), d.src>>) IN
    IF IsResize(d.option) THEN set_extension(path, ExtWebp)
    ELSE set_extension(path, ExtSvg)

\* CachedImage::from_file_path: the first '/'-piece that is base64 of UTF-8
\* text parsing as a CachedImage.
RECURSIVE FindMap(_)
FindMap(pieces) ==
    IF pieces = <<>> THEN [ok |-> FALSE]
    ELSE LET dec == base64_decode(Head(pieces)) IN
         IF dec.ok /\ ValidUtf8(dec.val) /\ qs_from_str(dec.val).ok
         THEN qs_from_str(dec.val)
         ELSE FindMap(Tail(pieces))
from_file_path(path) == FindMap(Split(path, 47))

\* ImageOptimizer::get_file_path_from_root, and save_path in create_image.
get_file_path_from_root(root, d) == path_from_segments(<<root, get_file_path(d)>>)

\* Path::parent: the path without its last component.
Parent(raw) ==
    LET end == LastComponentEnd(raw, Len(raw))
        start == ComponentStart(raw, end)
    IN IF end = 0 THEN <<>> ELSE TrimEnd(SubSeq(raw, 1, start - 1))

\* A directory path and every ancestor of it (what create_dir_all creates).
Ancestors(dir) ==
    {SubSeq(dir, 1, i) : i \in {j \in DOMAIN dir : j = Len(dir) \/ dir[j + 1] = 47}}
        \ {<<>>}

(***************************************************************************)
(* The descriptors and roots the model draws from                          *)
(***************************************************************************)
MaxSrcLen == 2

\* Characters a source string is made of: 'a', '.', '/', '?', ' ', '+', U+00E9.
SrcChars == {<<97>>, <<46>>, <<47>>, <<63>>, <<32>>, <<43>>, <<195, 169>>}

RECURSIVE SrcStrings(_)
SrcStrings(n) ==
    IF n = 0 THEN {<<>>}
    ELSE LET shorter == SrcStrings(n - 1) IN
         shorter \cup {s \o c : s \in shorter, c \in SrcChars}

TestJpg == B(<<"t","e","s","t",".","j","p","g">>)

Resize(w, h, q) == [tag |-> "r", w |-> w, h |-> h, q |-> q]
Blur(w, h, sw, sh, s) == [tag |-> "b", w |-> w, h |-> h, sw |-> sw, sh |-> sh, s |-> s]

\* The transforms of the repository's tests, and each with one field changed.
Options ==
    { Resize(100, 100, 75), Resize(100, 100, 80), Resize(100, 50, 75), Resize(1, 100, 75),
      Blur(25, 25, 100, 100, 20), Blur(25, 25, 100, 100, 21), Blur(25, 25, 100, 50, 20),
      Blur(25, 25, 50, 100, 20), Blur(25, 20, 100, 100, 20), Blur(20, 25, 100, 100, 20) }

TestImage == [src |-> TestJpg, option |-> Resize(100, 100, 75)]

\* Sources: every short string, the tests' file, and a source that is itself a
\* path token (one segment, valid base64 of a parsable query string).
Sources == SrcStrings(MaxSrcLen) \cup {TestJpg, base64_encode(qs_to_string(TestImage))}

Descriptors == [src : Sources, option : Options]

Roots == {<<>>, B(<<"p","u","b">>), B(<<"/","v","/","w","/">>)}

(***************************************************************************)
(* The disk: source images under the root                                  *)
(***************************************************************************)
\* What lies at a source path given relative to the root: directories are
\* named "a"; any other normal name is an image file, a grayscale one
\* (Luma8) when the name starts with '.', except names with a '?' or a
\* non-ASCII byte, which do not exist.  "." and "" pieces stay in place,
\* ".." leaves the tree.
DiskKind(rel) ==
    LET pieces == Split(rel, 47)
        name == pieces[Len(pieces)]
        isDir(x) == x \in {<<>>, Dot, <<97>>}
    IN
    IF rel = <<>> \/ \E i \in 1..(Len(pieces) - 1) : ~isDir(pieces[i]) THEN "missing"
    ELSE IF isDir(name) THEN "directory"
    ELSE IF name = DotDot \/ \E i \in DOMAIN name : name[i] = 63 \/ name[i] >= 128
         THEN "missing"
    ELSE IF Head(name) = 46 THEN "luma8"
    ELSE "rgb8"

\* The kind of what absolute_src_path names, for a given root.
SourceKind(root, path) ==
    LET base == path_from_segments(<<root>>) IN
    IF base = <<>> THEN DiskKind(path)
    ELSE IF path = base THEN "directory"
    ELSE IF StartsWith(path, base \o <<47>>)
         THEN DiskKind(SubSeq(path, Len(base) + 2, Len(path)))
    ELSE "missing"

(***************************************************************************)
(* State                                                                   *)
(***************************************************************************)
NumCallers == 2
MaxCalls == 2
MaxParallelism == 2
MaxFaults == 1
WriteChunks == 2

Callers == 1..NumCallers

VARIABLES
    root_file_path,     \* ImageOptimizer.root_file_path
    parallelism,        \* the permits the semaphore was created with
    permits,            \* permits available in ImageOptimizer.semaphore
    pc,                 \* per caller: where its create_image call stands
    cache_image,        \* per caller: the argument of the call
    save_path,          \* per caller: the local save_path
    absolute_src_path,  \* per caller: the local absolute_src_path
    saw,                \* per caller: what file_exists found at save_path
    task,               \* per caller: the blocking task it spawned
    log,                \* per caller: the calls that returned, in order
    files,              \* the cache files on disk: path -> content
    dirs,               \* the directories on disk
    faults,             \* IO failures the disk has produced so far
    cimg,               \* the codec exercised on one descriptor: the descriptor,
    cphase,             \*   how far the exercise got,
    curl,               \*   its lookup URL,
    cdecoded,           \*   the URL decoded again,
    cpath,              \*   its relative cache path,
    cfull,              \*   its cache path under the root,
    crecovered          \*   the descriptor recovered from the relative path

optimizerVars == <<root_file_path, parallelism, permits>>
callVars == <<pc, cache_image, save_path, absolute_src_path, saw, task, log>>
diskVars == <<files, dirs, faults>>
codecVars == <<cimg, cphase, curl, cdecoded, cpath, cfull, crecovered>>
vars == <<optimizerVars, callVars, diskVars, codecVars>>

NoImage == [src |-> <<>>, option |-> Resize(0, 0, 0)]
NoTask ==
    [pc |-> "none", out |-> "", img |-> "", touched |-> FALSE, off |-> 0,
     parent_missing |-> FALSE]
Absent == [st |-> "absent", data |-> <<>>]
Empty == [st |-> "partial", data |-> <<>>]

(***************************************************************************)
(* The file system: where a path string leads                              *)
(***************************************************************************)
\* The working directory of the process, as components: "/w".  The paths
\* create_image builds are relative (path_from_segments trims the leading
\* '/'), so the kernel resolves them from here.
Cwd == <<B(<<"w">>)>>

IsAbsolute(path) == path # <<>> /\ Head(path) = 47

\* The components the kernel walks: empty pieces and "." change nothing.
Components(path) ==
    SelectSeq(Split(path, 47), LAMBDA piece : piece # <<>> /\ piece # Dot)

\* A location (components from the file system root) as the key the disk
\* of the model is indexed by: the path relative to Cwd for what lies
\* below it, so that a relative path without "." or ".." is its own key,
\* and the absolute path for the rest.
KeyOf(at) ==
    IF Len(at) >= Len(Cwd) /\ SubSeq(at, 1, Len(Cwd)) = Cwd
    THEN JoinWith(SubSeq(at, Len(Cwd) + 1, Len(at)), 47)
    ELSE <<47>> \o JoinWith(at, 47)

\* What the disk holds at a key before any call: the source images under
\* the root, nothing elsewhere.
StaticKind(key) ==
    IF IsAbsolute(key) THEN "missing" ELSE SourceKind(root_file_path, key)

\* Whether a location is a directory: an ancestor of Cwd (or Cwd), one
\* that was created, or one of the source tree.
DirAt(ds, at) ==
    \/ Len(at) <= Len(Cwd) /\ at = SubSeq(Cwd, 1, Len(at))
    \/ KeyOf(at) \in ds
    \/ StaticKind(KeyOf(at)) = "directory"

\* Path resolution, component by component: a name goes down, ".." goes up
\* (staying at the root when there) and, when `strict`, fails unless the
\* location it leaves is an existing directory, as the kernel's walk does.
RECURSIVE Walk(_, _, _, _, _)
Walk(strict, ds, at, comps, i) ==
    IF i > Len(comps) THEN [ok |-> TRUE, at |-> at]
    ELSE IF comps[i] # DotDot THEN Walk(strict, ds, Append(at, comps[i]), comps, i + 1)
    ELSE IF strict /\ ~DirAt(ds, at) THEN [ok |-> FALSE, at |-> at]
    ELSE Walk(strict, ds, IF at = <<>> THEN at ELSE SubSeq(at, 1, Len(at) - 1),
              comps, i + 1)

\* A relative path of plain names only: no empty piece, no "." and no "..".
\* The walk along it only goes down from Cwd, so it cannot fail on the way
\* and the path is its own key.
PlainPath(path) ==
    /\ path # <<>>
    /\ path[Len(path)] # 47
    /\ \A i \in DOMAIN path :
          (i = 1 \/ path[i - 1] = 47) =>
             /\ path[i] # 47
             /\ ~(/\ path[i] = 46
                  /\ \/ i = Len(path)
                     \/ path[i + 1] = 47
                     \/ /\ path[i + 1] = 46
                        /\ i + 1 = Len(path) \/ path[i + 2] = 47)

\* The location a path names on the disk as it is (stat, open for reading):
\* whether the walk succeeds, and the key where it ends.
Resolve(ds, path) ==
    IF PlainPath(path) THEN [ok |-> TRUE, key |-> path]
    ELSE LET r == Walk(TRUE, ds, IF IsAbsolute(path) THEN <<>> ELSE Cwd,
                       Components(path), 1)
         IN [ok |-> r.ok, key |-> KeyOf(r.at)]

\* The key of the location a path names once every directory on the way
\* exists (after create_dir_all of its parent).
Lexical(path) ==
    IF PlainPath(path) THEN path
    ELSE KeyOf(Walk(FALSE, {}, IF IsAbsolute(path) THEN <<>> ELSE Cwd,
                    Components(path), 1).at)


\* The bytes a complete generation writes: a function of the transform and
\* of the source image alone.
Derivative(option, source) == [st |-> "complete", data |-> <<option, source>>]

\* A file that is being written is a row of chunks: the k-th chunk of a
\* derivative, or a hole (the zero bytes a write past the end leaves).
Hole == <<>>
Chunk(option, source, k) == <<option, source, k>>

\* The chunks of a file on disk.
Slots(f) ==
    IF f.st = "complete"
    THEN [k \in 1..WriteChunks |-> Chunk(f.data[1], f.data[2], k)]
    ELSE f.data

\* A row of chunks as a file: complete when it is every chunk of one
\* derivative, in order.
AsFile(slots, option, source) ==
    IF slots = [k \in 1..WriteChunks |-> Chunk(option, source, k)]
    THEN Derivative(option, source)
    ELSE [st |-> "partial", data |-> slots]

\* Mutant: a write that appends at the end of the file (O_APPEND).
WriteChunkAppended(f, option, source, k) ==
    AsFile(Append(Slots(f), Chunk(option, source, k)), option, source)

\* write(2) at the writer's own offset: the k-th chunk lands at place k,
\* whatever the file holds by now; places skipped over become holes.
WriteChunk(f, option, source, k) ==
    LET old == Slots(f) IN
    AsFile([i \in 1..Max({Len(old), k}) |->
               IF i = k THEN Chunk(option, source, k)
               ELSE IF i <= Len(old) THEN old[i] ELSE Hole],
           option, source)

\* The cache file a path leads to, and the disk with a file written there.
FileAt(fs, path) ==
    LET key == Lexical(path) IN IF key \in DOMAIN fs THEN fs[key] ELSE Absent
PutFile(fs, path, content) ==
    LET key == Lexical(path) IN
    [q \in DOMAIN fs \cup {key} |-> IF q = key THEN content ELSE fs[q]]

\* Mutant: an existence check that only finds directories.
file_exists_dir_only(fs, ds, path) == Lexical(path) \in ds

\* file_exists: tokio::fs::metadata(path).is_ok(), true when the walk along
\* the path succeeds and ends at a file of any content or at a directory.
file_exists(fs, ds, path) ==
    LET r == Resolve(ds, path) IN
    /\ r.ok
    /\ \/ r.key \in DOMAIN fs
       \/ r.key \in ds
       \/ r.key \in {KeyOf(SubSeq(Cwd, 1, n)) : n \in 0..Len(Cwd)}
       \/ StaticKind(r.key) \in {"directory", "rgb8", "luma8"}

\* What a successful file_exists was looking at.
Seen(fs, ds, path) == IF Resolve(ds, path).ok THEN FileAt(fs, path) ELSE Absent

\* What image::open finds at a path: a source image, a Resize derivative
\* written earlier (a WebP file, itself an image), or nothing it can decode.
OpenKind(fs, ds, path) ==
    LET r == Resolve(ds, path)
        key == r.key
    IN
    IF ~r.ok THEN "missing"
    ELSE IF key \in DOMAIN fs
         THEN IF fs[key].st = "complete" /\ IsResize(fs[key].data[1])
              THEN "rgb8" ELSE "undecodable"
    ELSE StaticKind(key)

\* The descriptors the concurrent callers ask for: the tests' image with
\* each transform, a grayscale source and a missing one.
CallImages ==
    { TestImage,
      [src |-> TestJpg, option |-> Blur(25, 25, 100, 100, 20)],
      [src |-> <<46, 97>>, option |-> Resize(100, 100, 75)],
      [src |-> <<63>>, option |-> Resize(100, 100, 75)] }

InitCalls ==
    /\ pc = [c \in Callers |-> "idle"]
    /\ cache_image = [c \in Callers |-> NoImage]
    /\ save_path = [c \in Callers |-> <<>>]
    /\ absolute_src_path = [c \in Callers |-> <<>>]
    /\ saw = [c \in Callers |-> Absent]
    /\ task = [c \in Callers |-> NoTask]
    /\ log = [c \in Callers |-> <<>>]

\* ImageOptimizer::new(root_file_path, parallelism), on a disk that holds
\* the root directory and no cache entry yet.
InitOptimizer(roots, sizes) ==
    /\ root_file_path \in roots
    /\ parallelism \in sizes
    /\ permits = parallelism
    /\ files = <<>>
    /\ dirs = Ancestors(path_from_segments(<<root_file_path>>))
    /\ faults = 0

InitCodecIdle ==
    /\ cimg = NoImage
    /\ cphase = "off"
    /\ curl = <<>>
    /\ cdecoded = [ok |-> FALSE]
    /\ cpath = <<>>
    /\ cfull = <<>>
    /\ crecovered = [ok |-> FALSE]

(***************************************************************************)
(* ImageOptimizer::create_image, one action per step of the call           *)
(***************************************************************************)
Returned(c, result) ==
    Append(log[c], [img |-> cache_image[c], result |-> result, saw |-> saw'[c],
                    wrote |-> task[c].touched, out |-> task[c].out,
                    path |-> save_path[c], source |-> absolute_src_path[c],
                    bytes |-> FileAt(files', save_path[c])])

\* The call starts: the two paths are computed from the root (lines 128-141).
Call(c, d) ==
    /\ pc[c] = "idle"
    /\ Len(log[c]) < MaxCalls
    /\ cache_image' = [cache_image EXCEPT ![c] = d]
    /\ save_path' = [save_path EXCEPT ![c] = get_file_path_from_root(root_file_path, d)]
    /\ absolute_src_path' =
          [absolute_src_path EXCEPT ![c] = path_from_segments(<<root_file_path, d.src>>)]
    /\ saw' = [saw EXCEPT ![c] = Absent]
    /\ pc' = [pc EXCEPT ![c] = "exists"]
    /\ UNCHANGED <<optimizerVars, task, log, diskVars, codecVars>>

\* Mutant: the existence check is made but generation goes ahead anyway.
CheckExistsThenGenerate(c) ==
    /\ pc[c] = "exists"
    /\ saw' = [saw EXCEPT ![c] = Seen(files, dirs, save_path[c])]
    /\ pc' = [pc EXCEPT ![c] = "acquire"]
    /\ UNCHANGED <<optimizerVars, cache_image, save_path, absolute_src_path, task, log,
                   diskVars, codecVars>>

\* Mutant: the permit is acquired before the existence check, so a hit
\* waits for a free permit too.
CheckExistsUnderPermit(c) ==
    /\ pc[c] = "exists"
    /\ permits > 0
    /\ saw' = [saw EXCEPT ![c] = Seen(files, dirs, save_path[c])]
    /\ UNCHANGED <<optimizerVars, cache_image, save_path, absolute_src_path, task,
                   diskVars, codecVars>>
    /\ IF file_exists(files, dirs, save_path[c])
       THEN /\ pc' = [pc EXCEPT ![c] = "idle"]
            /\ log' = [log EXCEPT ![c] = Returned(c, "AlreadyExists")]
       ELSE /\ pc' = [pc EXCEPT ![c] = "acquire"]
            /\ log' = log

\* if file_exists(&save_path).await { Ok(false) } else { ... } (lines 143-145)
CheckExists(c) ==
    /\ pc[c] = "exists"
    /\ saw' = [saw EXCEPT ![c] = Seen(files, dirs, save_path[c])]
    /\ UNCHANGED <<optimizerVars, cache_image, save_path, absolute_src_path, task,
                   diskVars, codecVars>>
    /\ IF file_exists(files, dirs, save_path[c])
       THEN /\ pc' = [pc EXCEPT ![c] = "idle"]
            /\ log' = [log EXCEPT ![c] = Returned(c, "AlreadyExists")]
       ELSE /\ pc' = [pc EXCEPT ![c] = "acquire"]
            /\ log' = log

\* self.semaphore.acquire().await completes once a permit is available
\* (lines 146-150).
\* Mutant: the call asks for two permits at once (acquire_many(2)) and gives
\* them back together.
AcquireMany(c) ==
    /\ pc[c] = "acquire"
    /\ permits > 1
    /\ permits' = permits - 1
    /\ pc' = [pc EXCEPT ![c] = "permit"]
    /\ UNCHANGED <<root_file_path, parallelism, cache_image, save_path,
                   absolute_src_path, saw, task, log, diskVars, codecVars>>

Acquire(c) ==
    /\ pc[c] = "acquire"
    /\ permits > 0
    /\ permits' = permits - 1
    /\ pc' = [pc EXCEPT ![c] = "permit"]
    /\ UNCHANGED <<root_file_path, parallelism, cache_image, save_path,
                   absolute_src_path, saw, task, log, diskVars, codecVars>>

\* Mutant: the permit is taken out of the semaphore for good (forgotten).
DropPermitForgotten(c) ==
    /\ pc[c] = "permit"
    /\ pc' = [pc EXCEPT ![c] = "spawn"]
    /\ UNCHANGED <<optimizerVars, cache_image, save_path,
                   absolute_src_path, saw, task, log, diskVars, codecVars>>

\* `let _ = ...;` binds nothing: the SemaphorePermit is a temporary, dropped
\* at the end of the statement, which returns the permit (line 146).
DropPermit(c) ==
    /\ pc[c] = "permit"
    /\ permits' = permits + 1
    /\ pc' = [pc EXCEPT ![c] = "spawn"]
    /\ UNCHANGED <<root_file_path, parallelism, cache_image, save_path,
                   absolute_src_path, saw, task, log, diskVars, codecVars>>

\* tokio::task::spawn_blocking(move || create_optimized_image(..)) (lines 151-154)
Spawn(c) ==
    /\ pc[c] = "spawn"
    /\ task' = [task EXCEPT ![c] =
                    [pc |-> "open", out |-> "", img |-> "", touched |-> FALSE, off |-> 0,
                     parent_missing |-> FALSE]]
    /\ pc' = [pc EXCEPT ![c] = "await"]
    /\ UNCHANGED <<optimizerVars, cache_image, save_path, absolute_src_path, saw, log,
                   diskVars, codecVars>>

\* Mutant: a failed task is reported as a success.
TaskOutcomeSwallowed(out) ==
    CASE out = "Panic" -> "JoinError"
      [] OTHER -> "Created"

\* match task.await { .. } (lines 156-160)
TaskOutcome(out) ==
    CASE out = "Ok" -> "Created"
      [] out = "Panic" -> "JoinError"
      [] OTHER -> out

\* Mutant: the call returns Ok(true) as soon as the task is spawned and does
\* not wait for it.
AwaitDetached(c) ==
    /\ pc[c] = "await"
    /\ UNCHANGED <<optimizerVars, cache_image, save_path, absolute_src_path, saw,
                   diskVars, codecVars>>
    /\ log' = [log EXCEPT ![c] = Returned(c, "Created")]
    /\ task' = [task EXCEPT ![c] = NoTask]
    /\ pc' = [pc EXCEPT ![c] = "idle"]

Await(c) ==
    /\ pc[c] = "await"
    /\ task[c].pc = "finished"
    /\ UNCHANGED <<optimizerVars, cache_image, save_path, absolute_src_path, saw,
                   diskVars, codecVars>>
    /\ log' = [log EXCEPT ![c] = Returned(c, TaskOutcome(task[c].out))]
    /\ task' = [task EXCEPT ![c] = NoTask]
    /\ pc' = [pc EXCEPT ![c] = "idle"]

(***************************************************************************)
(* create_optimized_image, running on the blocking pool                    *)
(***************************************************************************)
TaskStep(c, at, next, out) ==
    /\ task[c].pc = at
    /\ task' = [task EXCEPT ![c] = [@ EXCEPT !.pc = next, !.out = out]]
    /\ UNCHANGED <<optimizerVars, pc, cache_image, save_path, absolute_src_path, saw,
                   log, codecVars>>

\* image::open(source_path)? (lines 210 and 242)
TaskOpen(c) ==
    /\ task[c].pc = "open"
    /\ UNCHANGED <<optimizerVars, pc, cache_image, save_path, absolute_src_path, saw,
                   log, codecVars, diskVars>>
    /\ LET kind == OpenKind(files, dirs, absolute_src_path[c]) IN
       IF kind \in {"rgb8", "luma8"}
       THEN task' = [task EXCEPT ![c] = [@ EXCEPT !.pc = "encode", !.img = kind]]
       ELSE task' = [task EXCEPT ![c] = [@ EXCEPT !.pc = "finished", !.out = "ImageError"]]

\* resize, then Encoder::from_image(..).unwrap() and encode (lines 211-220,
\* 252-279): from_image is an Err for a grayscale image, and unwrap panics.
TaskEncode(c) ==
    /\ task[c].pc = "encode"
    /\ UNCHANGED diskVars
    /\ IF task[c].img = "rgb8"
       THEN TaskStep(c, "encode", "nested", "")
       ELSE TaskStep(c, "encode", "finished", "Panic")

\* create_nested_if_needed: the parent's existence is looked at (lines 305-308)
TaskNested(c) ==
    /\ task[c].pc = "nested"
    /\ UNCHANGED diskVars
    /\ UNCHANGED <<optimizerVars, pc, cache_image, save_path, absolute_src_path, saw,
                   log, codecVars>>
    /\ IF Parent(save_path[c]) = <<>> \/ file_exists(files, dirs, Parent(save_path[c]))
       THEN task' = [task EXCEPT ![c] = [@ EXCEPT !.pc = "create"]]
       ELSE task' = [task EXCEPT ![c] = [@ EXCEPT !.pc = "mkdir", !.parent_missing = TRUE]]

\* The directories create_dir_all(dir) leaves in place: dir and each of its
\* ancestors, where they lead.
DirsTo(dir) == {Lexical(a) : a \in Ancestors(dir)}

\* Mutant: std::fs::create_dir in place of create_dir_all, which fails when
\* the directory is there by now.
TaskMkdirExclusive(c) ==
    \/ /\ Lexical(Parent(save_path[c])) \notin dirs
       /\ TaskStep(c, "mkdir", "create", "")
       /\ dirs' = dirs \cup DirsTo(Parent(save_path[c]))
       /\ UNCHANGED <<files, faults>>
    \/ /\ Lexical(Parent(save_path[c])) \in dirs \/ faults < MaxFaults
       /\ TaskStep(c, "mkdir", "finished", "IOError")
       /\ faults' = IF Lexical(Parent(save_path[c])) \in dirs THEN faults ELSE faults + 1
       /\ UNCHANGED <<files, dirs>>

\* std::fs::create_dir_all(p)? (line 306): a directory that exists by now,
\* made by another task, is no error.
TaskMkdir(c) ==
    \/ /\ TaskStep(c, "mkdir", "create", "")
       /\ dirs' = dirs \cup DirsTo(Parent(save_path[c]))
       /\ UNCHANGED <<files, faults>>
    \/ /\ faults < MaxFaults
       /\ TaskStep(c, "mkdir", "finished", "IOError")
       /\ faults' = faults + 1
       /\ UNCHANGED <<files, dirs>>

\* std::fs::write, first half: File::create opens the path, creating the
\* file or truncating the one that is there (lines 222 and 229).
FsCreate(c) ==
    /\ files' = PutFile(files, save_path[c], Empty)
    /\ task' = [task EXCEPT ![c] = [@ EXCEPT !.pc = "write_all", !.touched = TRUE]]

TaskCreate(c) ==
    /\ task[c].pc = "create"
    /\ UNCHANGED <<optimizerVars, pc, cache_image, save_path, absolute_src_path, saw,
                   log, codecVars, dirs>>
    /\ \/ /\ Lexical(save_path[c]) \notin dirs
          /\ FsCreate(c)
          /\ UNCHANGED faults
       \/ /\ Lexical(save_path[c]) \in dirs \/ faults < MaxFaults
          /\ task' = [task EXCEPT ![c] = [@ EXCEPT !.pc = "finished", !.out = "IOError"]]
          /\ faults' = IF Lexical(save_path[c]) \in dirs THEN faults ELSE faults + 1
          /\ UNCHANGED files

\* std::fs::write, second half: write_all writes the encoded bytes chunk
\* after chunk, each at this writer's offset; a failure (a full disk) leaves
\* what was written so far.
TaskWriteAll(c) ==
    \/ /\ task[c].pc = "write_all"
       /\ files' = PutFile(files, save_path[c],
                           WriteChunk(FileAt(files, save_path[c]), cache_image[c].option,
                                      absolute_src_path[c], task[c].off + 1))
       /\ task' = [task EXCEPT ![c] =
                      IF task[c].off + 1 = WriteChunks
                      THEN [@ EXCEPT !.pc = "finished", !.out = "Ok", !.off = WriteChunks]
                      ELSE [@ EXCEPT !.off = task[c].off + 1]]
       /\ UNCHANGED <<optimizerVars, pc, cache_image, save_path, absolute_src_path, saw,
                      log, codecVars, dirs, faults>>
    \/ /\ faults < MaxFaults
       /\ TaskStep(c, "write_all", "finished", "IOError")
       /\ faults' = faults + 1
       /\ UNCHANGED <<files, dirs>>

TaskRun(c) ==
    \/ TaskOpen(c)
    \/ TaskEncode(c)
    \/ TaskNested(c)
    \/ TaskMkdir(c)
    \/ TaskCreate(c)
    \/ TaskWriteAll(c)

CallerStep(c) ==
    \/ CheckExists(c)
    \/ Acquire(c)
    \/ DropPermit(c)
    \/ Spawn(c)
    \/ Await(c)

(***************************************************************************)
(* Spec: concurrent callers of one ImageOptimizer                          *)
(***************************************************************************)
Init ==
    /\ InitOptimizer({B(<<"p","u","b">>)}, 0..MaxParallelism)
    /\ InitCalls
    /\ InitCodecIdle

Next ==
    \E c \in Callers :
        \/ \E d \in CallImages : Call(c, d)
        \/ CallerStep(c)
        \/ TaskRun(c)

Spec == Init /\ [][Next]_vars

(***************************************************************************)
(* SpecSolo: one caller asking for the same descriptor again and again     *)
(***************************************************************************)
SoloCall(c) ==
    IF log[c] = <<>> THEN \E d \in Descriptors : Call(c, d)
    ELSE Call(c, log[c][1].img)

\* One caller never has two permits in use: a semaphore of one permit.
InitSolo ==
    /\ InitOptimizer(Roots, {1})
    /\ InitCalls
    /\ InitCodecIdle

NextSolo ==
    \/ SoloCall(1)
    \/ CallerStep(1)
    \/ TaskRun(1)

SpecSolo == InitSolo /\ [][NextSolo]_vars

(***************************************************************************)
(* SpecCodec: the encodings and the path resolver applied to a descriptor  *)
(***************************************************************************)
InitCodec ==
    /\ InitOptimizer(Roots, {1})
    /\ InitCalls
    /\ cimg \in Descriptors
    /\ cphase = "start"
    /\ curl = <<>>
    /\ cdecoded = [ok |-> FALSE]
    /\ cpath = <<>>
    /\ cfull = <<>>
    /\ crecovered = [ok |-> FALSE]

ResolvePath ==
    /\ cphase = "start"
    /\ cpath' = get_file_path(cimg)
    /\ cfull' = get_file_path_from_root(root_file_path, cimg)
    /\ cphase' = "resolved"
    /\ UNCHANGED <<optimizerVars, callVars, diskVars, cimg, curl, cdecoded, crecovered>>

RecoverFromPath ==
    /\ cphase = "resolved"
    /\ crecovered' = from_file_path(cpath)
    /\ cphase' = "recovered"
    /\ UNCHANGED <<optimizerVars, callVars, diskVars, cimg, curl, cdecoded, cpath, cfull>>

EncodeUrl ==
    /\ cphase = "recovered"
    /\ curl' = get_url_encoded(cimg)
    /\ cphase' = "encoded"
    /\ UNCHANGED <<optimizerVars, callVars, diskVars, cimg, cdecoded, cpath, cfull,
                   crecovered>>

DecodeUrl ==
    /\ cphase = "encoded"
    /\ cdecoded' = from_url_encoded(curl)
    /\ cphase' = "decoded"
    /\ UNCHANGED <<optimizerVars, callVars, diskVars, cimg, curl, cpath, cfull,
                   crecovered>>

NextCodec == ResolvePath \/ RecoverFromPath \/ EncodeUrl \/ DecodeUrl

SpecCodec == InitCodec /\ [][NextCodec]_vars

(***************************************************************************)
(* SpecDrop: callers that may stop waiting (drop the create_image future)  *)
(***************************************************************************)
\* A task that was spawned and has not finished always has a next step.
TaskEnabled(c) == task[c].pc \notin {"none", "finished"}

\* Mutant: dropping the call cancels the task it spawned.
AbandonCancels(c) ==
    /\ pc[c] \in {"exists", "acquire", "await"}
    /\ pc' = [pc EXCEPT ![c] = "dropped"]
    /\ task' = [task EXCEPT ![c] =
                    IF TaskEnabled(c) THEN [@ EXCEPT !.pc = "finished", !.out = "Cancelled"]
                    ELSE @]
    /\ UNCHANGED <<optimizerVars, cache_image, save_path, absolute_src_path, saw,
                   log, diskVars, codecVars>>

\* A future can be dropped only where it is suspended: at the await of
\* file_exists, of the semaphore's acquire, or of the task's JoinHandle
\* (lines 143, 149, 156).  Dropping the JoinHandle detaches the blocking
\* task, which goes on; the caller makes no further step.
Abandon(c) ==
    /\ pc[c] \in {"exists", "acquire", "await"}
    /\ pc' = [pc EXCEPT ![c] = "dropped"]
    /\ UNCHANGED <<optimizerVars, cache_image, save_path, absolute_src_path, saw, task,
                   log, diskVars, codecVars>>

\* What the callers of this specification ask for: an image the pipeline
\* handles and a grayscale one, on which the task panics.
DropImages == {TestImage, [src |-> <<46, 97>>, option |-> Resize(100, 100, 75)]}

InitDrop ==
    /\ InitOptimizer({B(<<"p","u","b">>)}, 1..MaxParallelism)
    /\ InitCalls
    /\ InitCodecIdle

NextDrop ==
    \E c \in Callers :
        \/ \E d \in DropImages : Call(c, d)
        \/ CallerStep(c)
        \/ TaskRun(c)
        \/ Abandon(c)

\* When the existence check of a call, and the await of its task, can
\* complete.
CheckEnabled(c) == pc[c] = "exists"
AwaitEnabled(c) == pc[c] = "await" /\ task[c].pc = "finished"

\* The runtime polls a call that can go on, the semaphore serves its waiters
\* in order, and the blocking pool runs every task it was given.  The weak
\* fairness of CheckExists(c), Await(c) and TaskRun(c) is written out as
\* []<>~ENABLED \/ []<><<..>>_vars, with ENABLED <<..>>_vars given as the
\* state predicate it equals.
FairCalls ==
    \A c \in Callers :
        /\ WF_vars(DropPermit(c) \/ Spawn(c))
        /\ SF_vars(Acquire(c))
        /\ ([]<>~CheckEnabled(c)) \/ ([]<><<CheckExists(c)>>_vars)
        /\ ([]<>~AwaitEnabled(c)) \/ ([]<><<Await(c)>>_vars)
        /\ ([]<>~TaskEnabled(c)) \/ ([]<><<TaskRun(c)>>_vars)

SpecDrop == InitDrop /\ [][NextDrop]_vars /\ FairCalls

(***************************************************************************)
(* SpecLive: calls that are polled to completion, N >= 1                   *)
(***************************************************************************)
NextLive ==
    \E c \in Callers :
        \/ \E d \in DropImages : Call(c, d)
        \/ CallerStep(c)
        \/ TaskRun(c)

SpecLive == InitDrop /\ [][NextLive]_vars /\ FairCalls

(***************************************************************************)
(* SpecDecode: from_url_encoded applied to texts, well formed and not      *)
(***************************************************************************)
(* SpecTraverse: create_image on sources that climb out of the root        *)
(***************************************************************************)
\* "../" more times than any path of the model is deep: the walk reaches "/".
ToFsRoot == Concat([i \in 1..8 |-> DotDot \o <<47>>])

\* A request for the source image pub/test.jpg of the root "pub", named by
\* way of the file system root.
UpImage ==
    [src |-> ToFsRoot \o JoinWith(Cwd, 47) \o B(<<"/","p","u","b","/">>) \o TestJpg,
     option |-> Resize(100, 100, 75)]

\* A request whose source is the cache file of TestImage, named the same way.
UpCache ==
    [src |-> ToFsRoot \o JoinWith(Cwd, 47) \o <<47>>
                \o get_file_path_from_root(B(<<"p","u","b">>), TestImage),
     option |-> Resize(50, 50, 75)]

TraverseImages == {TestImage, UpImage, UpCache}

InitTraverse ==
    /\ InitOptimizer({B(<<"p","u","b">>)}, {MaxParallelism})
    /\ InitCalls
    /\ InitCodecIdle

NextTraverse ==
    \E c \in Callers :
        \/ \E d \in TraverseImages : Call(c, d)
        \/ CallerStep(c)
        \/ TaskRun(c)

SpecTraverse == InitTraverse /\ [][NextTraverse]_vars

(***************************************************************************)
\* The descriptors whose query strings the texts are made from.
DecodeImages == {d \in Descriptors : d.src \in {TestJpg, <<63>>, <<>>}}

\* The "key=value" pieces of a descriptor's query string: src first, then
\* the fields of the option, its u8 field (q or s) last.
QsPieces(d) == Split(qs_to_string(d), 38)

WithoutPiece(ps, i) ==
    JoinWith([k \in 1..(Len(ps) - 1) |-> IF k < i THEN ps[k] ELSE ps[k + 1]], 38)

WithValue(ps, i, v) ==
    JoinWith([k \in DOMAIN ps |->
                 IF k = i THEN QsPair(Split(ps[k], 61)[1], v) ELSE ps[k]], 38)

\* Values no u32 / u8 field takes: a word, nothing, a negative number, a
\* fraction, a number after a space (written '+'), and the first number
\* above the field's range.
BadValues(isU8) ==
    { B(<<"a","b","c">>), <<>>, B(<<"-","1">>), B(<<"1",".","5">>), B(<<"+","5">>) }
        \cup (IF isU8 THEN { B(<<"2","5","6">>) }
              ELSE { B(<<"4","2","9","4","9","6","7","2","9","6">>) })

Garbage == B(<<"g","a","r","b","a","g","e">>)

\* Query strings that lack a required field or carry such a value.
BadQueries(d) ==
    LET ps == QsPieces(d) IN
       {WithoutPiece(ps, i) : i \in DOMAIN ps}
    \cup UNION {{WithValue(ps, i, v) : v \in BadValues(i = Len(ps))} : i \in 2..Len(ps)}
    \cup {Garbage, <<>>}

\* A query string as the text handed to from_url_encoded: bare, after the
\* handler path and '?', and after a text that has '?' of its own.
UrlForms(q) == {q, UrlPrefix \o q, B(<<"a","?","b","?">>) \o q}

BadTexts(d) ==
    UNION {UrlForms(q) : q \in BadQueries(d)} \cup {get_url_encoded(d) \o <<63>>}

GoodTexts(d) == UrlForms(qs_to_string(d))

InitDecode ==
    /\ InitOptimizer({B(<<"p","u","b">>)}, {1})
    /\ InitCalls
    /\ cimg \in DecodeImages
    /\ cphase = "text"
    /\ curl \in BadTexts(cimg) \cup GoodTexts(cimg)
    /\ cdecoded = [ok |-> FALSE]
    /\ cpath = <<>>
    /\ cfull = <<>>
    /\ crecovered = [ok |-> FALSE]

DecodeText ==
    /\ cphase = "text"
    /\ cdecoded' = from_url_encoded(curl)
    /\ cphase' = "parsed"
    /\ UNCHANGED <<optimizerVars, callVars, diskVars, cimg, curl, cpath, cfull,
                   crecovered>>

NextDecode == DecodeText

SpecDecode == InitDecode /\ [][NextDecode]_vars

(***************************************************************************)
(* Properties                                                              *)
(***************************************************************************)
Errors == {"ImageError", "IOError", "JoinError"}
Running(c) == task[c].pc \notin {"none", "finished"}
InProgress == Cardinality({c \in Callers : Running(c)})
Calls == {<<c, i>> : c \in Callers, i \in 1..MaxCalls}
Made(ci) == ci[2] <= Len(log[ci[1]])
Entry(ci) == log[ci[1]][ci[2]]

\* C1: at most `parallelism` executions of the generation pipeline are in
\* progress at any time.
C1_BoundedParallelism == InProgress <= parallelism

\* C2 (as claimed): once a cache file is complete, nothing overwrites,
\* truncates or deletes it (it is written at most once).
C2_WrittenOnce ==
    [][\A p \in DOMAIN files :
          files[p].st = "complete" => p \in DOMAIN files' /\ files'[p] = files[p]]_vars

\* C2 (amended): no cache file is ever deleted, and a file is created,
\* truncated or written only by the task of a call whose own existence
\* check found no file at that path.
C2_WrittenOnlyAfterMiss ==
    [][/\ DOMAIN files \subseteq DOMAIN files'
       /\ \A p \in DOMAIN files' :
            FileAt(files, p) # files'[p] =>
               \E c \in Callers :
                  /\ Lexical(save_path[c]) = p
                  /\ pc[c] = "await"
                  /\ Running(c)
                  /\ saw[c].st = "absent"]_vars

\* C2 witness: a call found the file another call had created and returned
\* AlreadyExists, the file intact.
C2_Witness ==
    \E ci \in Calls, cj \in Calls :
        /\ Made(ci) /\ Made(cj)
        /\ Entry(ci).result = "Created"
        /\ Entry(cj).result = "AlreadyExists"
        /\ Entry(cj).img = Entry(ci).img
        /\ Entry(cj).bytes = Entry(ci).bytes
        /\ Entry(cj).bytes.st = "complete"

\* C3: a call whose existence check finds a file returns AlreadyExists in
\* that very step, taking no permit, starting no task, leaving the disk as
\* it is; and that step needs no permit to be available.
C3_CacheHitFastPath ==
    /\ [][\A c \in Callers :
            (pc[c] = "exists" /\ pc'[c] # "exists"
                /\ file_exists(files, dirs, save_path[c])) =>
               /\ pc'[c] = "idle"
               /\ Len(log'[c]) = Len(log[c]) + 1
               /\ log'[c][Len(log'[c])].result = "AlreadyExists"
               /\ permits' = permits
               /\ task' = task
               /\ files' = files /\ dirs' = dirs]_vars
    /\ [](\A c \in Callers :
            (pc[c] = "exists" /\ file_exists(files, dirs, save_path[c])) =>
               ENABLED CheckExists(c))

\* C3 witness: a call has returned AlreadyExists while every permit of a
\* non-empty semaphore is taken by another call.
C3_Witness ==
    \E c \in Callers :
        /\ pc[c] = "idle" /\ log[c] # <<>>
        /\ log[c][Len(log[c])].result = "AlreadyExists"
        /\ log[c][Len(log[c])].saw.st = "complete"
        /\ parallelism >= 1 /\ permits = 0

C5_WholeFileWrites ==
    \A ci \in Calls :
        (Made(ci) /\ Entry(ci).result = "AlreadyExists") => Entry(ci).saw.st = "complete"

\* C6: when a call returns an error, no file that its own task created is
\* left at its resolved path.
C6_FailureLeavesNoEntry ==
    \A ci \in Calls :
        (Made(ci) /\ Entry(ci).result \in Errors /\ Entry(ci).wrote)
            => Entry(ci).bytes.st = "absent"

Done(phases) == cphase \in phases
Some(d) == [ok |-> TRUE, val |-> d]

\* C7: decoding the lookup URL of a descriptor gives the descriptor back.
C7_QueryRoundTrip == Done({"decoded"}) => cdecoded = Some(cimg)

\* C7 witness: a descriptor whose source holds a '?' went through the URL.
C7_Witness ==
    /\ Done({"decoded"})
    /\ \E i \in DOMAIN cimg.src : cimg.src[i] = 63
    /\ cdecoded.ok /\ cdecoded.val.src = cimg.src
    /\ StartsWith(curl, UrlPrefix)

\* C8: from_file_path recovers the descriptor from the path get_file_path
\* gave for it.
C8_PathRoundTrip == Done({"recovered", "encoded", "decoded"}) => crecovered = Some(cimg)

\* The path under each root of every descriptor of the model.
FullPathOf(root, d) == get_file_path_from_root(root, d)
FullPaths == {<<r, d, FullPathOf(r, d)>> : r \in Roots, d \in Descriptors}

\* C9: under one root, no other descriptor resolves to the path of this one.
C9_ContentAddressing ==
    Done({"resolved"}) =>
        \A t \in FullPaths :
            t[1] = root_file_path => (t[3] = cfull <=> t[2] = cimg)

\* C9 witness: a path was resolved for a descriptor that has a neighbour
\* differing in the quality alone.
C9_Witness ==
    /\ Done({"resolved"})
    /\ cimg.option = Resize(100, 100, 75)
    /\ [cimg EXCEPT !.option = Resize(100, 100, 80)] \in Descriptors
    /\ cfull # <<>>

\* C10: the resolved path ends in ".webp" for a Resize, in ".svg" for a Blur.
C10_ExtensionSelection ==
    Done({"resolved", "recovered", "encoded", "decoded"}) =>
        EndsWith(cpath, Dot \o (IF IsResize(cimg.option) THEN ExtWebp ELSE ExtSvg))

\* C11: the path create_image checks and writes lies under the root exactly
\* as the root was given: it starts with the root string (less its trailing
\* separators), so an absolute root gives an absolute path.
C11_PathUnderGivenRoot ==
    Done({"resolved", "recovered", "encoded", "decoded"}) =>
        StartsWith(cfull, TrimEnd(root_file_path))

\* C12: on a miss the transform is started once, in the step from the spawn
\* to the await; a call that awaits its task does nothing but return; and a
\* task that ended in an image error, an IO error or a panic makes the call
\* return ImageError, IOError or JoinError, never Created or AlreadyExists.
C12_ErrorPropagation ==
    /\ [](\A ci \in Calls :
            Made(ci) =>
               /\ Entry(ci).out = "ImageError" => Entry(ci).result = "ImageError"
               /\ Entry(ci).out = "IOError" => Entry(ci).result = "IOError"
               /\ Entry(ci).out = "Panic" => Entry(ci).result = "JoinError"
               /\ Entry(ci).out = "Ok" <=> Entry(ci).result = "Created"
               /\ Entry(ci).out = "" <=> Entry(ci).result = "AlreadyExists")
    /\ [][\A c \in Callers :
            /\ (task'[c].pc = "open" /\ task[c].pc # "open") =>
                  pc[c] = "spawn" /\ pc'[c] = "await"
            /\ (pc[c] = "await" /\ pc'[c] # "await") =>
                  /\ pc'[c] = "idle"
                  /\ task[c].pc = "finished"
                  /\ Len(log'[c]) = Len(log[c]) + 1]_vars

\* C12 witness: one call has returned JoinError after its task panicked and
\* another IOError after its task failed on the disk.
C12_Witness ==
    \E ci \in Calls, cj \in Calls :
        /\ Made(ci) /\ Made(cj)
        /\ Entry(ci).out = "Panic" /\ Entry(ci).result = "JoinError"
        /\ Entry(cj).out = "IOError" /\ Entry(cj).result = "IOError"

\* C13: from_url_encoded returns a decode error, never a descriptor, for a
\* text whose part after the last '?' lacks a required field or carries a
\* value outside its field's type or range; the well-formed text of the
\* same descriptor decodes to it.
C13_BadInputRejected ==
    Done({"parsed"}) =>
        /\ curl \in BadTexts(cimg) => ~cdecoded.ok
        /\ curl \in GoodTexts(cimg) => cdecoded = Some(cimg)

\* C13 witness: a text whose quality is 256 was given and rejected.
C13_Witness ==
    /\ Done({"parsed"})
    /\ IsResize(cimg.option)
    /\ curl = UrlPrefix \o WithValue(QsPieces(cimg), 4, B(<<"2","5","6">>))
    /\ ~cdecoded.ok

\* C14: when no IO failure has occurred and no call for the path is still
\* in progress, every call that missed and ran the transform on a source
\* the pipeline decodes and encodes has returned Created, and the file at
\* its path is exactly the derivative one generation writes, however the
\* writes of the tasks interleaved.
C14_RedundantGenerationSafe ==
    \A ci \in Calls :
        ( /\ Made(ci)
          /\ Entry(ci).out # ""
          /\ faults = 0
          /\ SourceKind(root_file_path, Entry(ci).source) = "rgb8"
          /\ \A c \in Callers : pc[c] = "idle" \/ save_path[c] # Entry(ci).path )
        => /\ Entry(ci).result = "Created"
           /\ FileAt(files, Entry(ci).path)
                 = Derivative(Entry(ci).img.option, Entry(ci).source)

\* C14 witness: two callers asked for the same descriptor, both found the
\* file missing, both generated and returned Created, and the file is whole.
C14_Witness ==
    /\ \A c \in Callers : pc[c] = "idle"
    /\ Made(<<1, 1>>) /\ Made(<<2, 1>>)
    /\ log[1][1].img = log[2][1].img
    /\ log[1][1].saw.st = "absent" /\ log[2][1].saw.st = "absent"
    /\ log[1][1].result = "Created" /\ log[2][1].result = "Created"
    /\ FileAt(files, log[1][1].path).st = "complete"

\* C15: the available permits are between 0 and N, the only permits out are
\* those of calls between their acquire and the end of that statement, and
\* whenever no call is in progress all N permits are available.
C15_PermitsNeverLeaked ==
    /\ permits \in 0..parallelism
    /\ permits + Cardinality({c \in Callers : pc[c] = "permit"}) = parallelism
    /\ (\A c \in Callers : pc[c] = "idle") => permits = parallelism

\* C15 witness: calls have returned Created, AlreadyExists and an error after
\* a failed task, no call is in progress, and every permit is available.
C15_Witness ==
    /\ \A c \in Callers : pc[c] = "idle"
    /\ parallelism >= 1 /\ permits = parallelism
    /\ \E ci \in Calls : Made(ci) /\ Entry(ci).result = "Created"
    /\ \E ci \in Calls : Made(ci) /\ Entry(ci).result = "AlreadyExists"
    /\ \E ci \in Calls : Made(ci) /\ Entry(ci).result \in {"JoinError", "IOError"}

Dropped(c) == pc[c] = "dropped"

\* C16: a call dropped while its task runs leaves the task running: the
\* task is never reset, it finishes, and with a source the pipeline handles
\* and no IO failure it finishes with its output written at the resolved
\* path; dropped calls hold no permit; and a call dropped before it spawned
\* never has a task.
C16_AbandonmentKeepsTask ==
    /\ \A c \in Callers :
          (Dropped(c) /\ Running(c)) ~> (Dropped(c) /\ task[c].pc = "finished")
    /\ [](\A c \in Callers :
            (Dropped(c) /\ task[c].pc = "finished") =>
               /\ task[c].out \in {"Ok", "ImageError", "IOError", "Panic"}
               /\ task[c].out = "IOError" => faults > 0
               /\ task[c].out = "Ok" => FileAt(files, save_path[c]).st # "absent"
               /\ SourceKind(root_file_path, absolute_src_path[c]) = "rgb8"
                     => task[c].out \in {"Ok", "IOError"})
    /\ []((\A c \in Callers : pc[c] \in {"idle", "dropped"}) => permits = parallelism)
    /\ [][\A c \in Callers :
            /\ Dropped(c) => Dropped(c)' /\ (task[c].pc = "none" <=> task'[c].pc = "none")
            /\ (Dropped(c)' /\ pc[c] \in {"exists", "acquire"}) => task'[c].pc = "none"]_vars

\* C16 witness: a call was dropped while its task ran, the task has finished
\* since and the whole derivative is at the path, though no call has
\* returned Created for it.
C16_Witness ==
    \E c \in Callers :
        /\ Dropped(c)
        /\ task[c].pc = "finished" /\ task[c].out = "Ok"
        /\ FileAt(files, save_path[c])
              = Derivative(cache_image[c].option, absolute_src_path[c])
        /\ \A ci \in Calls : Made(ci) => Entry(ci).result # "Created"
        /\ permits = parallelism

\* C17: a task that found the parent directory missing goes on to create
\* its file whether or not another task has made the directory meanwhile:
\* unless the disk itself fails, its create_dir_all step leads to the file's
\* creation with the directory in place, and no call returns IOError
\* without a disk failure.
C17_MkdirRaceBenign ==
    /\ [](\A ci \in Calls : (Made(ci) /\ Entry(ci).result = "IOError") => faults > 0)
    /\ [][\A c \in Callers :
            (task[c].pc = "mkdir" /\ task'[c].pc # "mkdir" /\ faults' = faults) =>
               /\ task'[c].pc = "create"
               /\ Lexical(Parent(save_path[c])) \in dirs']_vars

\* C17 witness: two tasks for one path both found the parent missing, both
\* ran create_dir_all, and both have written their file without any failure.
C17_Witness ==
    /\ save_path[1] = save_path[2]
    /\ task[1].parent_missing /\ task[2].parent_missing
    /\ task[1].pc = "finished" /\ task[2].pc = "finished"
    /\ task[1].out = "Ok" /\ task[2].out = "Ok"
    /\ faults = 0

\* C18: a step of create_image changes no file but the cache file of the
\* descriptor it was called with: where a file is created, truncated or
\* written there is no source image, and if that place is the resolved path
\* of a descriptor, a task of a call with that descriptor is running.
C18_NoCrossKeyEffect ==
    [][\A k \in DOMAIN files' :
         (IF k \in DOMAIN files THEN files[k] ELSE Absent) # files'[k] =>
            /\ StaticKind(k) \notin {"rgb8", "luma8"}
            /\ \A d \in TraverseImages :
                  get_file_path_from_root(root_file_path, d) = k =>
                     \E c \in Callers : Running(c) /\ cache_image[c] = d]_vars

\* C19: a call returns Created only once its own task has finished, after
\* creating and writing the file, and a file is at the resolved path at
\* that moment; a call returns AlreadyExists only when its own existence
\* check found a file at the resolved path, and then without a task.
C19_CreatedMeansPresent ==
    /\ [](\A ci \in Calls :
            Made(ci) =>
               /\ Entry(ci).result = "Created" =>
                     Entry(ci).wrote /\ Entry(ci).bytes.st # "absent"
               /\ Entry(ci).result = "AlreadyExists" =>
                     ~Entry(ci).wrote /\ Entry(ci).saw.st # "absent")
    /\ [][\A c \in Callers :
            (Len(log'[c]) > Len(log[c])) =>
               LET e == log'[c][Len(log'[c])] IN
               /\ e.result = "Created" =>
                     /\ pc[c] = "await"
                     /\ task[c].pc = "finished" /\ task[c].out = "Ok"
                     /\ file_exists(files', dirs', save_path[c])
               /\ e.result = "AlreadyExists" =>
                     /\ pc[c] = "exists"
                     /\ file_exists(files, dirs, save_path[c])]_vars

C19_Witness ==
    \E ci \in Calls, cj \in Calls :
        /\ Made(ci) /\ Made(cj)
        /\ Entry(ci).result = "Created" /\ Entry(ci).bytes.st = "complete"
        /\ Entry(cj).result = "AlreadyExists" /\ Entry(cj).saw.st = "partial"

\* C20: with parallelism >= 1, under fair scheduling, every call that was
\* made returns (Created, AlreadyExists or an error), and a caller that
\* waits for a permit gets one.
C20_EveryCallReturns ==
    /\ \A c \in Callers : \A n \in 0..(MaxCalls - 1) :
          (pc[c] # "idle" /\ Len(log[c]) = n) ~>
             (/\ pc[c] = "idle" /\ Len(log[c]) = n + 1
              /\ log[c][n + 1].result \in
                    {"Created", "AlreadyExists", "ImageError", "IOError", "JoinError"})
    /\ \A c \in Callers : (pc[c] = "acquire") ~> (pc[c] = "permit")

C20_Witness ==
    /\ parallelism = 1 /\ permits = 0
    /\ \E c \in Callers, o \in Callers :
          /\ pc[c] = "acquire" /\ Len(log[c]) = MaxCalls - 1
          /\ pc[o] = "permit"

====
